---------------------------- MODULE Spec2Model ----------------------------
(***************************************************************************)
(* A model of pya's editable audio signal (src/pya/esig.py): the Esig      *)
(* facade with its edit log, the Cache with its working signal, pitch      *)
(* contour and events, the PitchChange edit and the event segmenter        *)
(* Cache._guess_events; and of pya's recorder (src/pya/Arecorder.py), at   *)
(* the end of the module.                                                  *)
(*                                                                         *)
(* Representation.  A signal is a sequence of frames, one integer per      *)
(* frame: the fundamental frequency (Hz) the frame carries, 0 for an       *)
(* unvoiced frame.  Indices into contours and the start/end of events and  *)
(* edits are Python's, 0-based and half-open.  Quantities that are floats  *)
(* in the source are kept exact as scaled integers: min_event_length and   *)
(* max_vibrato_inaccuracy in tenths, shift_factor in halves.               *)
(***************************************************************************)
EXTENDS Integers, Sequences, FiniteSets, TLC

VARIABLES
    phase,                  \* "new" (before Esig(...)), "ready", "failed"
    heap,                   \* sample buffers (numpy arrays) by identity
    esig_asig,              \* Esig.asig.sig   : the buffer of the original
    sr,                     \* Esig.asig.sr    : frames per second
    algorithm,              \* Esig.algorithm
    max_vibrato_extent,     \* Esig.max_vibrato_extent (cents)
    max_vibrato_inaccuracy, \* Esig.max_vibrato_inaccuracy (tenths)
    min_event_length,       \* Esig.min_event_length (tenths of a second)
    edits,                  \* Esig.edits      : the edit log
    cache_asig,             \* Cache.asig.sig  : the buffer of the working signal
    pitch,                  \* Cache.pitch
    pitch_sr,               \* Cache.pitch_sr
    events,                 \* Cache.events
    applied,                \* history: the edits applied to the working signal
    last,                   \* the last call: operation, arguments, outcome, external calls
    seg_pc,                 \* _guess_events run step by step: "idle", "loop", "done"
    seg_pitch,              \* its argument pitch
    seg_sr,                 \* its argument pitch_sr
    seg_i,                  \* the loop index i
    seg_start,              \* the local start
    seg_end,                \* the local end
    seg_ranges,             \* the local ranges
    seg_events,             \* the list it returns
    channels,               \* Arecorder.channels, the channel count of the Aserver it extends
    bs,                     \* Arecorder.bs: the frames of a block of the stream
    stream,                 \* Arecorder.stream: "none" before boot(), "open" after
    recording,              \* Arecorder._recording
    record_buffer,          \* Arecorder.record_buffer: the blocks buffered
    recordings,             \* Arecorder.recordings: the signals stored
    block_cnt,              \* Arecorder.block_cnt
    rec_log,                \* history: the calls returned and the blocks delivered
    cb_pc,                  \* _recorder_callback on the audio thread of each started stream:
                            \* "idle", "test", "append"
    cb_data,                \* its argument in_data, converted, for each started stream
    boot_pc,                \* boot() on the caller's thread: "idle", "count", "buffer", "flag", "start"
    stop_pc,                \* stop() on the caller's thread: "idle", "test", "stack", "append", "clear"
    stop_sig                \* its local sig

esigVars == <<phase, heap, esig_asig, sr, algorithm, edits, cache_asig, pitch,
              pitch_sr, events, applied, last>>
cfgVars  == <<max_vibrato_extent, max_vibrato_inaccuracy, min_event_length>>
segVars  == <<seg_pc, seg_pitch, seg_sr, seg_i, seg_start, seg_end, seg_ranges,
              seg_events>>
recCfg   == <<channels, bs>>
recVars  == <<recCfg, stream, recording, record_buffer, recordings, block_cnt, rec_log,
              cb_pc, cb_data, boot_pc, stop_pc, stop_sig>>
vars     == <<esigVars, cfgVars, segVars, recVars>>

-----------------------------------------------------------------------------
(* Bounds of the model. *)

MaxSigLen  == 3     \* frames of an original signal
MaxEdits   == 2     \* length of the edit log
MaxApplied == 3     \* length of the history of applied edits
MaxLen     == 4     \* length of a contour handed to the segmenter alone
MaxEvents  == 6     \* calls of an Arecorder and blocks delivered to it

-----------------------------------------------------------------------------
(* Exact arithmetic on fractions of naturals. *)

Abs(x) == IF x < 0 THEN -x ELSE x

Min(a, b) == IF a < b THEN a ELSE b

Max(a, b) == IF a > b THEN a ELSE b

RECURSIVE FracGT(_, _, _, _)
\* a/b > c/d for a, c >= 0 and b, d > 0, by comparing the continued
\* fractions: no product is formed, so nothing overflows.
FracGT(a, b, c, d) ==
    LET qa == a \div b
        qc == c \div d
        ra == a % b
        rc == c % d
    IN  IF qa # qc THEN qa > qc
        ELSE IF ra = 0 THEN FALSE
        ELSE IF rc = 0 THEN TRUE
        ELSE FracGT(d, rc, b, ra)

RECURSIVE SumSeq(_)
SumSeq(s) == IF s = <<>> THEN 0 ELSE s[1] + SumSeq(Tail(s))

\* Python's s[a:b] on a sequence of length n, as the 0-based bounds it selects:
\* a negative index counts from the end, and both are clipped to 0..n.
SliceBound(k, n) == IF k < 0 THEN Max(k + n, 0) ELSE Min(k, n)

\* The 0-based indices s[a:b] selects.
SliceIdx(a, b, n) == {k \in 0..(n - 1) : SliceBound(a, n) <= k /\ k < SliceBound(b, n)}

\* s[a:b] for 0 <= a, b <= Len(s).
Slice(s, a, b) == SubSeq(s, a + 1, b)

-----------------------------------------------------------------------------
(* The event segmenter, Cache._guess_events. *)

\* librosa.midi_to_hz(librosa.hz_to_midi(f) + 1) - f = f * (2^(1/12) - 1):
\* the step of one semitone above f, as the fraction SemitoneNum/SemitoneDen of f.
SemitoneNum == 59463
SemitoneDen == 1000000

average_vibrato_rate == 5

\* The unit the weights of the Gaussian kernel are expressed in.
KernelUnit == 100000

\* scipy.ndimage.gaussian_filter1d(x, sigma) with sigma = pitch_sr /
\* (average_vibrato_rate * 2): the radius int(4 * sigma + 0.5) of its kernel.
KernelRadius(psr) == (4 * psr + average_vibrato_rate) \div (average_vibrato_rate * 2)

\* The normalised weights exp(-k^2 / (2 sigma^2)) / sum of the kernel, from the
\* centre outwards, in units of 1/KernelUnit.
KernelWeights(psr) ==
    CASE psr = 1 -> <<100000>>
      [] psr = 2 -> <<100000, 0>>
      [] psr = 3 -> <<99232, 384>>
      [] psr = 4 -> <<91922, 4039, 0>>

\* mode='reflect': the index an out-of-range index k reads in an array of n.
Reflect(k, n) ==
    LET m == k % (2 * n) IN IF m < n THEN m ELSE 2 * n - 1 - m

\* new_pitches_gaussian[j] for a 0-based j, in units of 1/KernelUnit.
Gaussian(x, psr, j) ==
    LET r == KernelRadius(psr)
        w == KernelWeights(psr)
        n == Len(x)
    IN  SumSeq([q \in 1..(2 * r + 1) |->
                  w[Abs(q - 1 - r) + 1] * x[Reflect(j + q - 1 - r, n) + 1]])

\* any(abs(pitch - new_avg) > max_freq_deviation for pitch in new_pitches),
\* with new_avg = sum/len and max_freq_deviation = semitone step of new_avg
\* times ext/100.
RawDeviates(new_pitches, ext) ==
    LET s == SumSeq(new_pitches)
        n == Len(new_pitches)
    IN  \E k \in 1..n :
            FracGT(Abs(new_pitches[k] * n - s), s, SemitoneNum * ext, SemitoneDen * 100)

\* any(abs(pitch_gaussian - new_avg) > max_freq_deviation * max_vibrato_inaccuracy
\*     for pitch_gaussian in new_pitches_gaussian)
SmoothDeviates(new_pitches, psr, ext, inacc) ==
    LET s == SumSeq(new_pitches)
        n == Len(new_pitches)
    IN  \E k \in 1..n :
            FracGT(Abs(Gaussian(new_pitches, psr, k - 1) * n - s * KernelUnit),
                   s * KernelUnit,
                   SemitoneNum * ext * inacc, SemitoneDen * 1000)

\* EndEvent without the check of the raw pitches.
EndEventSmoothedOnly(p, psr, i, start, ext, inacc) ==
    LET current_pitch == p[i + 1]
        new_pitches   == Append(Slice(p, start, i), current_pitch)
    IN  IF current_pitch = 0 THEN TRUE
        ELSE \/ SmoothDeviates(new_pitches, psr, ext, inacc)
             \/ i = Len(p) - 1

\* end_event after the body of the loop for sample i.
EndEvent(p, psr, i, start, ext, inacc) ==
    LET current_pitch == p[i + 1]
        new_pitches   == Append(Slice(p, start, i), current_pitch)
    IN  IF current_pitch = 0 THEN TRUE
        ELSE \/ RawDeviates(new_pitches, ext)
             \/ SmoothDeviates(new_pitches, psr, ext, inacc)
             \/ i = Len(p) - 1

\* SegIter with "start = i" left out: the next candidate starts where the
\* last one did.
SegIterKeepStart(st, p, psr, i, ext, inacc, mel) ==
    LET end  == i
        stop == EndEvent(p, psr, i, st.start, ext, inacc)
        long == (end - st.start) * 10 > mel * psr
    IN  [start  |-> st.start,
         end    |-> end,
         ranges |-> IF stop /\ long
                    THEN Append(st.ranges, [start |-> st.start, end |-> end])
                    ELSE st.ranges]

\* SegIter with the last sample counted into the run that reaches it: there
\* end is i + 1.
SegIterInclusiveLast(st, p, psr, i, ext, inacc, mel) ==
    LET stop == EndEvent(p, psr, i, st.start, ext, inacc)
        end  == IF i = Len(p) - 1 /\ p[i + 1] # 0
                   /\ ~RawDeviates(Append(Slice(p, st.start, i), p[i + 1]), ext)
                   /\ ~SmoothDeviates(Append(Slice(p, st.start, i), p[i + 1]), psr, ext, inacc)
                THEN i + 1 ELSE i
        long == (end - st.start) * 10 > mel * psr
    IN  [start  |-> IF stop THEN i ELSE st.start,
         end    |-> end,
         ranges |-> IF stop /\ long
                    THEN Append(st.ranges, [start |-> st.start, end |-> end])
                    ELSE st.ranges]

\* One iteration of the loop, on the locals st = [start, end, ranges].
SegIter(st, p, psr, i, ext, inacc, mel) ==
    LET end  == i
        stop == EndEvent(p, psr, i, st.start, ext, inacc)
        long == (end - st.start) * 10 > mel * psr
    IN  [start  |-> IF stop THEN i ELSE st.start,
         end    |-> end,
         ranges |-> IF stop /\ long
                    THEN Append(st.ranges, [start |-> st.start, end |-> end])
                    ELSE st.ranges]

RECURSIVE SegLoop(_, _, _, _, _, _, _)
\* The locals after iterations i, i+1, ..., Len(p) - 1.
SegLoop(st, p, psr, i, ext, inacc, mel) ==
    IF i >= Len(p) THEN st
    ELSE SegLoop(SegIter(st, p, psr, i, ext, inacc, mel), p, psr, i + 1, ext, inacc, mel)

\* Cache._guess_events(pitch, pitch_sr): the events, in the order committed.
guess_events(p, psr, ext, inacc, mel) ==
    SegLoop([start |-> 0, end |-> 0, ranges |-> <<>>], p, psr, 0, ext, inacc, mel).ranges


-----------------------------------------------------------------------------
(* The external collaborators, as deterministic functions of their inputs. *)

f0_min == 60
f0_max == 600

\* Cache._guess_pitch_yaapt(asig): pYAAPT.yaapt(signal, ..., f0_min=60,
\* f0_max=600).samp_values.  One estimate per frame: the frame's frequency
\* inside the analysed range, 0 (unvoiced) outside it.
guess_pitch_yaapt(sig) ==
    [k \in 1..Len(sig) |-> IF f0_min <= sig[k] /\ sig[k] <= f0_max THEN sig[k] ELSE 0]

\* tsm.tdpsola(sig, sr, src_f0, tgt_f0=tgt_f0): every voiced frame is
\* resynthesised at tgt_f0/src_f0 times its frequency, an unvoiced frame is
\* kept.  The result is a new array.
tdpsola(sig, rate, src_f0, tgt_f0) ==
    [k \in 1..Len(sig) |->
        IF k > Len(src_f0) \/ src_f0[k] = 0 THEN sig[k]
        ELSE (sig[k] * tgt_f0[k]) \div src_f0[k]]

YaaptCall(sig) == [fn |-> "yaapt", sig |-> sig, src |-> <<>>, tgt |-> <<>>]

TdpsolaCall(sig, src_f0, tgt_f0) ==
    [fn |-> "tdpsola", sig |-> sig, src |-> src_f0, tgt |-> tgt_f0]

-----------------------------------------------------------------------------
(* Edit and PitchChange. *)

\* PitchChangeInit without the check of the algorithm.
PitchChangeInitUnchecked(start, end, shift_factor, alg) ==
    [raised |-> "",
     edit   |-> [start |-> start, end |-> end, needs_pitch |-> TRUE,
                 shift_factor |-> shift_factor, algorithm |-> alg]]

\* PitchChange.__init__: the new edit, or the error it raises.
PitchChangeInit(start, end, shift_factor, alg) ==
    IF alg \notin {"tdpsola"}
    THEN [raised |-> "ValueError",
          edit   |-> [start |-> start, end |-> end, needs_pitch |-> TRUE,
                      shift_factor |-> shift_factor, algorithm |-> ""]]
    ELSE [raised |-> "",
          edit   |-> [start |-> start, end |-> end, needs_pitch |-> TRUE,
                      shift_factor |-> shift_factor, algorithm |-> alg]]

\* changed_pitch = np.copy(pitch); changed_pitch[start:end] *= shift_factor
ChangedPitch(edit, p) ==
    [k \in 1..Len(p) |->
        IF (k - 1) \in SliceIdx(edit.start, edit.end, Len(p))
        THEN (p[k] * edit.shift_factor) \div 2
        ELSE p[k]]

\* PitchAfterScaling with changed_pitch = pitch in place of the copy: the
\* scaling is done in the array of the contour.
PitchAfterScalingInPlace(p, changed_pitch) == changed_pitch

\* What the array pitch holds once changed_pitch[start:end] has been scaled:
\* changed_pitch is np.copy(pitch), so what it held before.
PitchAfterScaling(p, changed_pitch) == p

\* PitchChange.apply(asig, pitch) on the cache c: asig.sig becomes the array
\* the modification routine returns; tsm_raises: the routine raises instead.
PitchChangeApply(edit, c, rate, tsm_raises) ==
    IF edit.algorithm = "tdpsola"
    THEN LET changed_pitch == ChangedPitch(edit, c.pitch)
             src_f0 == PitchAfterScaling(c.pitch, changed_pitch)
             call == TdpsolaCall(c.sig, src_f0, changed_pitch)
         IN  IF tsm_raises
             THEN [c EXCEPT !.pitch  = src_f0,
                            !.raised = "External",
                            !.calls  = Append(@, call)]
             ELSE [c EXCEPT !.sig     = tdpsola(c.sig, rate, src_f0, changed_pitch),
                            !.fresh   = TRUE,
                            !.pitch   = src_f0,
                            !.calls   = Append(@, call),
                            !.applied = Append(@, edit)]
    ELSE [c EXCEPT !.raised = "ValueError"]

-----------------------------------------------------------------------------
(* Cache.  A cache value c is the record of the fields of a Cache while a  *)
(* call runs: sig (the samples of asig.sig), fresh (asig.sig was rebound   *)
(* to a new array), pitch, pitch_sr, events, together with the error       *)
(* raised so far, the external calls made and the history of applied edits.*)

\* recalculate with the pitch estimated before the algorithm is looked at.
recalculateEstimateFirst(sig, rate, alg, ext, inacc, mel) ==
    LET p   == guess_pitch_yaapt(sig)
        psr == (Len(p) * rate) \div Len(sig)
    IN  IF alg = "yaapt"
        THEN [raised |-> "", pitch |-> p, pitch_sr |-> psr,
              events |-> guess_events(p, psr, ext, inacc, mel),
              calls  |-> <<YaaptCall(sig)>>]
        ELSE [raised |-> "ValueError", pitch |-> <<>>, pitch_sr |-> 0,
              events |-> <<>>, calls |-> <<YaaptCall(sig)>>]

\* Cache._recalculate on the samples sig: the tuple it returns, or its error.
recalculate(sig, rate, alg, ext, inacc, mel) ==
    IF alg = "yaapt"
    THEN LET p   == guess_pitch_yaapt(sig)
             psr == (Len(p) * rate) \div Len(sig)
         IN  [raised |-> "", pitch |-> p, pitch_sr |-> psr,
              events |-> guess_events(p, psr, ext, inacc, mel),
              calls  |-> <<YaaptCall(sig)>>]
    ELSE [raised |-> "ValueError", pitch |-> <<>>, pitch_sr |-> 0,
          events |-> <<>>, calls |-> <<>>]

\* Refresh that assigns the contour and its rate and keeps the events.
RefreshContourOnly(c, rate, alg, ext, inacc, mel) ==
    LET r == recalculate(c.sig, rate, alg, ext, inacc, mel)
    IN  IF r.raised # ""
        THEN [c EXCEPT !.raised = r.raised]
        ELSE [c EXCEPT !.pitch = r.pitch, !.pitch_sr = r.pitch_sr,
                       !.calls = @ \o r.calls]

\* The three assignments that follow every call of _recalculate.
Refresh(c, rate, alg, ext, inacc, mel) ==
    LET r == recalculate(c.sig, rate, alg, ext, inacc, mel)
    IN  IF r.raised # ""
        THEN [c EXCEPT !.raised = r.raised]
        ELSE [c EXCEPT !.pitch = r.pitch, !.pitch_sr = r.pitch_sr,
                       !.events = r.events, !.calls = @ \o r.calls]

\* CacheApply with the contour refreshed after the edit as well.
CacheApplyRefreshAfter(c, edit, rate, alg, ext, inacc, mel, tsm_raises) ==
    LET c1 == IF edit.needs_pitch THEN Refresh(c, rate, alg, ext, inacc, mel) ELSE c
        c2 == IF c1.raised # "" THEN c1 ELSE PitchChangeApply(edit, c1, rate, tsm_raises)
    IN  IF c2.raised # "" THEN c2
        ELSE [Refresh(c2, rate, alg, ext, inacc, mel) EXCEPT !.calls = c2.calls]

\* CacheApply that refreshes the contour and leaves the edit for later.
CacheApplyDeferred(c, edit, rate, alg, ext, inacc, mel, tsm_raises) ==
    IF edit.needs_pitch THEN Refresh(c, rate, alg, ext, inacc, mel) ELSE c

\* CacheApply without the refresh: the edit is given the contour the cache
\* holds.
CacheApplyStale(c, edit, rate, alg, ext, inacc, mel, tsm_raises) ==
    PitchChangeApply(edit, c, rate, tsm_raises)

\* Cache.apply(edit).
CacheApply(c, edit, rate, alg, ext, inacc, mel, tsm_raises) ==
    LET c1 == IF edit.needs_pitch THEN Refresh(c, rate, alg, ext, inacc, mel) ELSE c
    IN  IF c1.raised # "" THEN c1
        ELSE PitchChangeApply(edit, c1, rate, tsm_raises)

RECURSIVE ReapplyLoop(_, _, _, _, _, _, _, _, _)
\* for edit in self.esig.edits: self.apply(edit), from the k-th edit on; the
\* modification routine raises in iteration failAt (never when failAt = 0).
ReapplyLoop(c, es, k, failAt, rate, alg, ext, inacc, mel) ==
    IF k > Len(es) \/ c.raised # "" THEN c
    ELSE ReapplyLoop(CacheApply(c, es[k], rate, alg, ext, inacc, mel, k = failAt),
                     es, k + 1, failAt, rate, alg, ext, inacc, mel)

\* Cache.reapply(): the signal the replay starts from.
ReapplySource(original, working) == working

\* Cache.reapply(): asig.sig and pitch are replaced by copies (the copy of
\* pitch holds the values pitch held), then every logged edit is applied.
CacheReapply(c, original, es, failAt, rate, alg, ext, inacc, mel) ==
    ReapplyLoop([c EXCEPT !.sig = ReapplySource(original, c.sig), !.fresh = TRUE],
                es, 1, failAt, rate, alg, ext, inacc, mel)

\* CacheUpdate that keeps the contour it has.
CacheUpdateSkip(c, rate, alg, ext, inacc, mel) == c

\* CacheUpdate with the events taken from the contour the cache held when
\* update was called.
CacheUpdateLaggingEvents(c, rate, alg, ext, inacc, mel) ==
    [Refresh(c, rate, alg, ext, inacc, mel)
        EXCEPT !.events = guess_events(c.pitch, c.pitch_sr, ext, inacc, mel)]

\* Cache.update().
CacheUpdate(c, rate, alg, ext, inacc, mel) == Refresh(c, rate, alg, ext, inacc, mel)


-----------------------------------------------------------------------------
(* Inputs. *)

FrameVals == {0, 220}

\* The original signals: a single frame, or MaxSigLen frames, the shortest
\* signals whose events depend on what the frames hold.
Signals == UNION {[1..n -> FrameVals] : n \in {1, MaxSigLen}}

\* The sample rate of the original with the thresholds of the Esig, which
\* are Esig's defaults: 40 cents, 0.5 and 0.1 s.
Setups == {[sr |-> 1, ext |-> 40, inacc |-> 5, mel |-> 1]}

Algorithms == {"yaapt", "swipe"}

\* The arguments of change_pitch (shift_factor in halves): a range inside the
\* contour, an inverted range, a range that starts before the contour and ends
\* past it, and an algorithm that is not supported.
CallArgs ==
    {[start |-> 0, end |-> 1, shift_factor |-> 4, algorithm |-> "tdpsola"],
     [start |-> 1, end |-> 0, shift_factor |-> 4, algorithm |-> "tdpsola"],
     [start |-> 0 - 1, end |-> MaxSigLen + 1, shift_factor |-> 1, algorithm |-> "tdpsola"],
     [start |-> 0, end |-> 1, shift_factor |-> 4, algorithm |-> "psola"]}

BufIds == {"b0", "b1", "b2"}

NoArgs == [start |-> 0, end |-> 0, shift_factor |-> 0, algorithm |-> ""]

SegIdle ==
    /\ seg_pc = "idle"
    /\ seg_pitch = <<>>
    /\ seg_sr = 0
    /\ seg_i = 0
    /\ seg_start = 0
    /\ seg_end = 0
    /\ seg_ranges = <<>>
    /\ seg_events = <<>>

\* The fields Arecorder.__init__ sets, and the threads at rest.
RecNew ==
    /\ stream = "none"
    /\ recording = FALSE
    /\ record_buffer = <<>>
    /\ recordings = <<>>
    /\ block_cnt = 0
    /\ rec_log = <<>>
    /\ cb_pc = <<>>
    /\ cb_data = <<>>
    /\ boot_pc = "idle"
    /\ stop_pc = "idle"
    /\ stop_sig = <<>>

\* No Arecorder is in use.
RecIdle ==
    /\ channels = 0
    /\ bs = 0
    /\ RecNew

-----------------------------------------------------------------------------
(* Esig: the state before Esig(asig, algorithm, ...) and the operations. *)

Init ==
    /\ phase = "new"
    /\ esig_asig = "b0"
    /\ \E s \in Signals : heap = [b \in BufIds |-> IF b = "b0" THEN s ELSE <<>>]
    /\ algorithm \in Algorithms
    /\ \E cfg \in Setups :
        /\ sr = cfg.sr
        /\ max_vibrato_extent = cfg.ext
        /\ max_vibrato_inaccuracy = cfg.inacc
        /\ min_event_length = cfg.mel
    /\ edits = <<>>
    /\ cache_asig = "none"
    /\ pitch = <<>>
    /\ pitch_sr = 0
    /\ events = <<>>
    /\ applied = <<>>
    /\ last = [op |-> "none", args |-> NoArgs, raised |-> "", calls |-> <<>>]
    /\ SegIdle
    /\ RecIdle

\* The array a new result is stored in: one that neither signal holds.
NewBuf == CHOOSE b \in BufIds : b \notin {esig_asig, cache_asig}

\* CacheInitRef without the copy: the cache works on the array of the original.
CacheInitRefShared(original, copy) == original

\* Cache.__init__: the array the working signal starts in, np.copy(esig.asig.sig).
CacheInitRef(original, copy) == copy

\* The fields of the cache as a call finds them.
CacheOf ==
    [sig |-> heap[cache_asig], fresh |-> FALSE, pitch |-> pitch, pitch_sr |-> pitch_sr,
     events |-> events, raised |-> "", calls |-> <<>>, applied |-> applied]

\* The fields of the cache as a call leaves them.
Commit(c) ==
    /\ IF c.fresh
       THEN /\ cache_asig' = NewBuf
            /\ heap' = [b \in BufIds |->
                          IF b = NewBuf THEN c.sig
                          ELSE IF b = cache_asig /\ b # esig_asig THEN <<>>
                          ELSE heap[b]]
       ELSE UNCHANGED <<cache_asig, heap>>
    /\ pitch' = c.pitch
    /\ pitch_sr' = c.pitch_sr
    /\ events' = c.events
    /\ applied' = c.applied

\* Esig.__init__ and, inside it, Cache.__init__.
Construct ==
    /\ phase = "new"
    /\ LET ref == CacheInitRef(esig_asig, NewBuf)
           r   == recalculate(heap[esig_asig], sr, algorithm, max_vibrato_extent,
                              max_vibrato_inaccuracy, min_event_length)
       IN  IF r.raised # ""
           THEN /\ phase' = "failed"
                /\ last' = [op |-> "Esig", args |-> NoArgs, raised |-> r.raised,
                            calls |-> r.calls]
                /\ UNCHANGED <<heap, cache_asig, pitch, pitch_sr, events>>
           ELSE /\ phase' = "ready"
                /\ cache_asig' = ref
                /\ heap' = [heap EXCEPT ![ref] = heap[esig_asig]]
                /\ pitch' = r.pitch
                /\ pitch_sr' = r.pitch_sr
                /\ events' = r.events
                /\ last' = [op |-> "Esig", args |-> NoArgs, raised |-> "",
                            calls |-> r.calls]
    /\ edits' = <<>>
    /\ UNCHANGED <<esig_asig, sr, algorithm, applied, cfgVars, segVars, recVars>>

\* LogAppend that puts the new edit in front of the log.
LogPrepend(log, edit) == <<edit>> \o log

\* self.edits.append(PitchChange(...)).
LogAppend(log, edit) == Append(log, edit)

\* Esig.change_pitch(start, end, shift_factor, algorithm).
ChangePitch(start, end, shift_factor, alg, tsm_raises) ==
    /\ phase = "ready"
    /\ Len(edits) < MaxEdits
    /\ LET new  == PitchChangeInit(start, end, shift_factor, alg)
           args == [start |-> start, end |-> end, shift_factor |-> shift_factor,
                    algorithm |-> alg]
       IN  IF new.raised # ""
           THEN /\ last' = [op |-> "change_pitch", args |-> args,
                            raised |-> new.raised, calls |-> <<>>]
                /\ UNCHANGED <<edits, heap, cache_asig, pitch, pitch_sr, events, applied>>
           ELSE LET c == CacheApply(CacheOf, new.edit, sr, algorithm, max_vibrato_extent,
                                    max_vibrato_inaccuracy, min_event_length, tsm_raises)
                IN  /\ edits' = LogAppend(edits, new.edit)
                    /\ Commit(c)
                    /\ last' = [op |-> "change_pitch", args |-> args,
                                raised |-> c.raised, calls |-> c.calls]
    /\ UNCHANGED <<phase, esig_asig, sr, algorithm, cfgVars, segVars, recVars>>

\* Esig.plot_pitch(): cache.update(), then drawing, which changes no state.
PlotPitch ==
    /\ phase = "ready"
    /\ LET c == CacheUpdate(CacheOf, sr, algorithm, max_vibrato_extent,
                            max_vibrato_inaccuracy, min_event_length)
       IN  /\ Commit(c)
           /\ last' = [op |-> "plot_pitch", args |-> NoArgs, raised |-> c.raised,
                       calls |-> c.calls]
    /\ UNCHANGED <<phase, esig_asig, sr, algorithm, edits, cfgVars, segVars, recVars>>

\* Esig.cache.update().
Update ==
    /\ phase = "ready"
    /\ LET c == CacheUpdate(CacheOf, sr, algorithm, max_vibrato_extent,
                            max_vibrato_inaccuracy, min_event_length)
       IN  /\ Commit(c)
           /\ last' = [op |-> "update", args |-> NoArgs, raised |-> c.raised,
                       calls |-> c.calls]
    /\ UNCHANGED <<phase, esig_asig, sr, algorithm, edits, cfgVars, segVars, recVars>>

\* Esig.cache.reapply().
Reapply(failAt) ==
    /\ phase = "ready"
    /\ Len(applied) + Len(edits) <= MaxApplied
    /\ LET c == CacheReapply(CacheOf, heap[esig_asig], edits, failAt, sr, algorithm,
                             max_vibrato_extent, max_vibrato_inaccuracy,
                             min_event_length)
       IN  /\ Commit(c)
           /\ last' = [op |-> "reapply", args |-> NoArgs, raised |-> c.raised,
                       calls |-> c.calls]
    /\ UNCHANGED <<phase, esig_asig, sr, algorithm, edits, cfgVars, segVars, recVars>>

Next ==
    \/ Construct
    \/ \E a \in CallArgs, tsm_raises \in BOOLEAN :
           ChangePitch(a.start, a.end, a.shift_factor, a.algorithm, tsm_raises)
    \/ PlotPitch
    \/ Update
    \/ \E failAt \in 0..Len(edits) : Reapply(failAt)

Spec == Init /\ [][Next]_vars


-----------------------------------------------------------------------------
(* What the claims speak of. *)

\* The samples of the original signal and of the working signal.
Original == heap[esig_asig]

Working == heap[cache_asig]

Voiced(f) == f0_min <= f /\ f <= f0_max

\* The signal sig with the edit e applied once: the voiced frames of
\* [start, end) sound at shift_factor times their frequency.
Shifted(sig, e) ==
    [k \in 1..Len(sig) |->
        IF (k - 1) \in SliceIdx(e.start, e.end, Len(sig)) /\ Voiced(sig[k])
        THEN (sig[k] * e.shift_factor) \div 2
        ELSE sig[k]]

RECURSIVE WithEdits(_, _)
\* The signal sig with the edits es applied once each, in order.
WithEdits(sig, es) ==
    IF es = <<>> THEN sig ELSE WithEdits(Shifted(sig, Head(es)), Tail(es))

\* The range of the edit e lies in a contour of n estimates.
ValidRange(e, n) == 0 <= e.start /\ e.start <= e.end /\ e.end <= n

\* The edit change_pitch builds from the arguments a.
EditOf(a) ==
    [start |-> a.start, end |-> a.end, needs_pitch |-> TRUE,
     shift_factor |-> a.shift_factor, algorithm |-> a.algorithm]

\* The contour and the events a refresh derives from the signal sig.
ContourOf(sig) == guess_pitch_yaapt(sig)

RateOf(sig) == (Len(ContourOf(sig)) * sr) \div Len(sig)

EventsOf(sig) ==
    guess_events(ContourOf(sig), RateOf(sig), max_vibrato_extent,
                 max_vibrato_inaccuracy, min_event_length)

\* The external calls of the last operation, by name.
CalledFns == {last.calls[k].fn : k \in 1..Len(last.calls)}

-----------------------------------------------------------------------------
(* Properties of Esig and Cache. *)

\* C1: after n >= 1 successful change_pitch calls with ranges inside the
\* contour (every logged edit applied once, in order), a reapply() that
\* returns leaves the working signal equal to the one the incremental calls
\* produced, which is the original with every logged edit applied exactly
\* once, in log order.
C1_ReplayDeterminism ==
    [][(/\ last'.op = "reapply"
        /\ last'.raised = ""
        /\ Len(edits) >= 1
        /\ applied = edits
        /\ \A k \in 1..Len(edits) : ValidRange(edits[k], Len(pitch)))
       => /\ heap'[cache_asig'] = heap[cache_asig]
          /\ heap'[cache_asig'] = WithEdits(heap[esig_asig], edits)]_vars

\* C2 as stated: whenever apply (change_pitch), reapply or update has
\* returned, the contour is the estimate of the current working signal.
C2_ContourOfCurrentSignal ==
    (/\ phase = "ready"
     /\ last.op \in {"change_pitch", "reapply", "update"}
     /\ last.raised = "")
    => pitch = ContourOf(Working)

\* C2, amended: after update (and plot_pitch) has returned, the contour, its
\* rate and the events are those of the current working signal; after
\* change_pitch, or reapply with a non-empty log, has returned, they are those
\* of the working signal as it was immediately before the last edit was
\* applied, the signal that was handed to the modification routine together
\* with this contour.
C2_ContourOfPreEditSignal ==
    (phase = "ready" /\ last.raised = "") =>
        /\ last.op \in {"update", "plot_pitch"} =>
              /\ pitch = ContourOf(Working)
              /\ pitch_sr = RateOf(Working)
              /\ events = EventsOf(Working)
        /\ (\/ last.op = "change_pitch"
            \/ last.op = "reapply" /\ edits # <<>>) =>
              LET call == last.calls[Len(last.calls)]
              IN  /\ call.fn = "tdpsola"
                  /\ call.src = pitch
                  /\ pitch = ContourOf(call.sig)
                  /\ pitch_sr = RateOf(call.sig)
                  /\ events = EventsOf(call.sig)
                  /\ Working = Shifted(call.sig, edits[Len(edits)])

\* C2's case: change_pitch has returned and the contour is not the estimate
\* of the working signal.
C2_Witness ==
    /\ phase = "ready"
    /\ last.op = "change_pitch"
    /\ last.raised = ""
    /\ pitch # ContourOf(Working)

\* C3: change_pitch with start > end raises and leaves the log, the working
\* signal, the contour and the events as they were.
C3_InvertedRangeRejected ==
    [][(last'.op = "change_pitch" /\ last'.args.start > last'.args.end)
       => /\ last'.raised # ""
          /\ edits' = edits
          /\ heap'[cache_asig'] = heap[cache_asig]
          /\ pitch' = pitch
          /\ events' = events]_vars

\* C4: change_pitch with start < 0 or end greater than the length of the
\* contour raises before an edit is appended to the log or applied to the
\* working signal.
C4_OutOfBoundsRejected ==
    [][(/\ last'.op = "change_pitch"
        /\ (last'.args.start < 0 \/ last'.args.end > Len(pitch)))
       => /\ last'.raised # ""
          /\ edits' = edits
          /\ heap'[cache_asig'] = heap[cache_asig]]_vars

\* C5: change_pitch with an algorithm other than 'tdpsola' raises and changes
\* nothing: the log, the working signal, the contour, its rate and the events
\* are as before, and neither the pitch estimator nor the modification
\* routine is called.
C5_InvalidAlgorithmRejected ==
    [][(last'.op = "change_pitch" /\ last'.args.algorithm # "tdpsola")
       => /\ last'.raised = "ValueError"
          /\ last'.calls = <<>>
          /\ UNCHANGED <<edits, heap, cache_asig, pitch, pitch_sr, events>>]_vars

\* C5's case: the call was rejected while the log held an edit.
C5_Witness ==
    /\ last.op = "change_pitch"
    /\ last.args.algorithm # "tdpsola"
    /\ last.raised = "ValueError"
    /\ Len(edits) >= 1
    /\ Working # Original

\* C6: constructing an Esig with an algorithm other than 'yaapt' raises during
\* construction, no Esig comes to exist, and the pitch estimator has not been
\* called when the error is raised.
C6_ConstructionRejected ==
    /\ (last.op = "Esig" /\ algorithm # "yaapt") =>
          /\ phase = "failed"
          /\ last.raised = "ValueError"
          /\ "yaapt" \notin CalledFns
    /\ phase = "ready" => algorithm = "yaapt"
    /\ phase = "failed" => last.op = "Esig" /\ algorithm # "yaapt"

\* C6's case: a construction with an unsupported algorithm has been tried.
C6_Witness ==
    /\ last.op = "Esig"
    /\ algorithm = "swipe"
    /\ phase = "failed"

\* C7: no operation changes the samples of the original signal or the array
\* that holds them, and the working signal is never held in the array of the
\* original.
C7_OriginalUntouched ==
    /\ [](phase = "ready" => cache_asig # esig_asig)
    /\ [][esig_asig' = esig_asig /\ heap'[esig_asig] = heap[esig_asig]]_vars

\* C7's case: edits and a replay have changed the working signal.
C7_Witness ==
    /\ phase = "ready"
    /\ last.op = "reapply"
    /\ Len(applied) >= 2
    /\ Working # Original

\* C8: a change_pitch call that returns normally has appended exactly one
\* edit, the one it was called for, at the end of the log, and that edit has
\* been applied to the working signal; so while every logged edit has gone
\* through such a call, the working signal is the original with the logged
\* edits applied once each, in log order.
C8_EagerEvaluation ==
    /\ [][(last'.op = "change_pitch" /\ last'.raised = "")
          => /\ edits' = Append(edits, EditOf(last'.args))
             /\ applied' = Append(applied, EditOf(last'.args))
             /\ heap'[cache_asig'] = Shifted(heap[cache_asig], EditOf(last'.args))]_vars
    /\ []((phase = "ready" /\ applied = edits) => Working = WithEdits(Original, edits))

\* C8's case: two change_pitch calls have returned normally and changed the
\* signal.
C8_Witness ==
    /\ phase = "ready"
    /\ last.op = "change_pitch"
    /\ last.raised = ""
    /\ Len(edits) = 2
    /\ applied = edits
    /\ Working # Original
    /\ Working # Shifted(Original, edits[1])

\* C9: plot_pitch leaves the log, the original and the working signal as they
\* are; of the cache it changes the contour, its rate and the events only,
\* which afterwards are those derived from the working signal.
C9_PlotPitchRefreshesOnly ==
    [][last'.op = "plot_pitch"
       => /\ UNCHANGED <<phase, edits, esig_asig, cache_asig, heap, sr, algorithm,
                         cfgVars>>
          /\ last'.raised = ""
          /\ pitch' = ContourOf(Working)
          /\ pitch_sr' = RateOf(Working)
          /\ events' = EventsOf(Working)]_vars

\* C9's case: plot_pitch has returned on a signal that edits have changed.
C9_Witness ==
    /\ last.op = "plot_pitch"
    /\ Len(edits) >= 1
    /\ Working # Original
    /\ pitch # ContourOf(Original)

\* The calls of the modification routine among the external calls cs.
TdpsolaCalls(cs) == SelectSeq(cs, LAMBDA call : call.fn = "tdpsola")

\* The sequence s begins with the sequence q.
IsPrefix(q, s) == Len(q) <= Len(s) /\ SubSeq(s, 1, Len(q)) = q

\* C14: an update() that directly follows an update() leaves the contour,
\* its rate and the events as the first left them, and no update() changes
\* the working signal or the log.
C14_UpdateIdempotent ==
    /\ [][(last.op = "update" /\ last'.op = "update")
          => /\ pitch' = pitch
             /\ pitch_sr' = pitch_sr
             /\ events' = events]_vars
    /\ [][last'.op = "update"
          => /\ heap'[cache_asig'] = heap[cache_asig]
             /\ edits' = edits]_vars

\* C14's case: update() has returned after an edit that changed the signal,
\* the contour and the events.
C14_Witness ==
    /\ last.op = "update"
    /\ last.raised = ""
    /\ Len(edits) >= 1
    /\ Working # Original
    /\ pitch = ContourOf(Working)
    /\ pitch # ContourOf(Original)
    /\ events # EventsOf(Original)

\* C15: over change_pitch, plot_pitch, update and reapply the log only grows
\* at its end: every step leaves the log it found as a prefix of the log,
\* only change_pitch lengthens it, by the one edit it was called for, and no
\* step removes, moves or alters a logged edit.
C15_LogAppendOnly ==
    [][/\ IsPrefix(edits, edits')
       /\ edits' # edits =>
             /\ last'.op = "change_pitch"
             /\ edits' = Append(edits, EditOf(last'.args))]_vars

\* C15's case: a log of two different edits has gone through a replay.
C15_Witness ==
    /\ last.op = "reapply"
    /\ Len(edits) = 2
    /\ edits[1] # edits[2]

\* C16: the source contour handed to the modification routine for an edit,
\* in change_pitch and for every edit replayed by reapply, is the estimate of
\* the pitch of the signal handed over with it, and that signal is the
\* working signal as the edit finds it: the one the operation started with
\* for its first edit, the result of the edit before for every other.
C16_SourceContourOfSignalBeforeEdit ==
    [][last'.op \in {"change_pitch", "reapply"} =>
          LET calls == TdpsolaCalls(last'.calls)
          IN  \A j \in 1..Len(calls) :
                  /\ calls[j].src = ContourOf(calls[j].sig)
                  /\ calls[j].sig =
                        IF j = 1 THEN heap[cache_asig]
                        ELSE tdpsola(calls[j - 1].sig, sr, calls[j - 1].src,
                                     calls[j - 1].tgt)]_vars

\* C16's case: the second of two change_pitch calls was handed a contour
\* that the first edit had changed.
C16_Witness ==
    /\ last.op = "change_pitch"
    /\ last.raised = ""
    /\ Len(edits) = 2
    /\ applied = edits
    /\ Len(TdpsolaCalls(last.calls)) = 1
    /\ TdpsolaCalls(last.calls)[1].src # ContourOf(Original)

\* C17: when the modification routine raises during change_pitch (here after
\* calls whose ranges, like its own, lie inside the contour), the error
\* reaches the caller and the working signal, the contour, its rate and the
\* events are what they were before the call.
C17_FailedEditLeavesCache ==
    [][(/\ last'.op = "change_pitch"
        /\ last'.raised = "External"
        /\ \A k \in 1..Len(edits') : ValidRange(edits'[k], Len(pitch)))
       => /\ heap'[cache_asig'] = heap[cache_asig]
          /\ pitch' = pitch
          /\ pitch_sr' = pitch_sr
          /\ events' = events]_vars

\* C18: in every state after the construction, the events of the cache are
\* what the segmenter returns for the contour and the rate of the cache.
C18_EventsOfCurrentContour ==
    phase = "ready" =>
        events = guess_events(pitch, pitch_sr, max_vibrato_extent,
                              max_vibrato_inaccuracy, min_event_length)

\* C18's case: edits and a refresh have replaced the contour and the events
\* the construction left.
C18_Witness ==
    /\ phase = "ready"
    /\ Len(edits) >= 1
    /\ pitch # ContourOf(Original)
    /\ events # EventsOf(Original)
    /\ Len(events) >= 2


\* C22: over change_pitch calls on a new Esig, calls in which the
\* modification routine raised included, the log holds as many edits as have
\* been applied to the working signal: a call that finds the two numbers
\* equal leaves them equal (here for a call with its range inside the
\* contour).
C22_LogInStepWithCache ==
    [][(/\ last'.op = "change_pitch"
        /\ ValidRange(EditOf(last'.args), Len(pitch))
        /\ Len(edits) = Len(applied))
       => Len(edits') = Len(applied')]_vars

-----------------------------------------------------------------------------
(* PitchChange.apply on its own: one edit with its range inside the contour *)
(* applied to a signal and a contour of the bounded sets.                   *)

ApplyPitches == {0, 220, 330}

ShiftFactors == {1, 2, 4}

ApplyInit ==
    /\ phase = "apply"
    /\ esig_asig = "b0"
    /\ cache_asig = "b1"
    /\ \E n \in 1..MaxSigLen :
        /\ \E s \in [1..n -> FrameVals] :
               heap = [b \in BufIds |-> IF b = "b2" THEN <<>> ELSE s]
        /\ pitch \in [1..n -> ApplyPitches]
        /\ \E start \in 0..n, end \in 0..n, shift_factor \in ShiftFactors :
            /\ start <= end
            /\ edits = <<PitchChangeInit(start, end, shift_factor, "tdpsola").edit>>
    /\ sr = 1
    /\ algorithm = "yaapt"
    /\ max_vibrato_extent = 40
    /\ max_vibrato_inaccuracy = 5
    /\ min_event_length = 1
    /\ pitch_sr = 1
    /\ events = <<>>
    /\ applied = <<>>
    /\ last = [op |-> "none", args |-> NoArgs, raised |-> "", calls |-> <<>>]
    /\ SegIdle
    /\ RecIdle

\* edit.apply(self.asig, self.pitch) for the edit of the log.
ApplyEdit ==
    /\ phase = "apply"
    /\ LET e == edits[1]
           c == PitchChangeApply(e, CacheOf, sr, FALSE)
       IN  /\ Commit(c)
           /\ last' = [op |-> "apply",
                       args |-> [start |-> e.start, end |-> e.end,
                                 shift_factor |-> e.shift_factor,
                                 algorithm |-> e.algorithm],
                       raised |-> c.raised, calls |-> c.calls]
    /\ phase' = "applied"
    /\ UNCHANGED <<esig_asig, sr, algorithm, edits, cfgVars, segVars, recVars>>

ApplyNext == ApplyEdit

ApplySpec == ApplyInit /\ [][ApplyNext]_vars

\* C13: for a PitchChange with 0 <= start <= end <= len(contour), apply calls
\* the modification routine once, with the contour it was given as source
\* pitch and, as target, a contour t of the same length with t[i] =
\* contour[i] * shift_factor for start <= i < end and t[i] = contour[i]
\* elsewhere; the contour it was given holds afterwards what it held before.
C13_TargetContourScaledInRange ==
    [][(phase' = "applied" /\ ValidRange(edits[1], Len(pitch)))
       => /\ last'.raised = ""
          /\ Len(last'.calls) = 1
          /\ LET call == last'.calls[1]
                 e    == edits[1]
             IN  /\ call.fn = "tdpsola"
                 /\ call.sig = heap[cache_asig]
                 /\ call.src = pitch
                 /\ Len(call.tgt) = Len(pitch)
                 /\ \A i \in 0..(Len(pitch) - 1) :
                       call.tgt[i + 1] = IF e.start <= i /\ i < e.end
                                         THEN (pitch[i + 1] * e.shift_factor) \div 2
                                         ELSE pitch[i + 1]
          /\ pitch' = pitch]_vars

\* C13's case: a contour of 220 throughout, of two estimates or more, has
\* been raised by the factor 2.0 over its full range, and the routine was
\* called with a target of 440 throughout.
C13_Witness ==
    /\ phase = "applied"
    /\ Len(pitch) >= 2
    /\ \A k \in 1..Len(pitch) : pitch[k] = 220
    /\ edits[1].start = 0
    /\ edits[1].end = Len(pitch)
    /\ edits[1].shift_factor = 4
    /\ Len(last.calls) = 1
    /\ \A k \in 1..Len(pitch) : last.calls[1].tgt[k] = 440

-----------------------------------------------------------------------------
(* The segmenter on its own: Cache._guess_events(pitch, pitch_sr) run one  *)
(* iteration at a time on every contour and configuration of the bounded   *)
(* sets.                                                                   *)

\* Unvoiced, a pitch, the same pitch a little sharp (inside 10 cents of the
\* mean of a long run, outside it in a short one) and its octave.
SegVals == {0, 220, 222, 440}

\* The contour of the spec's worked example.
ExampleContour == <<220, 220, 220, 440, 440, 440>>

Contours == UNION {[1..n -> SegVals] : n \in 0..MaxLen} \cup {ExampleContour}

SegRates == {1, 3, 4}

SegExtents == {10, 40}

SegInaccuracies == {5, 10}

SegMinLengths == {0, 5, 10}

SegInit ==
    /\ phase = "new"
    /\ esig_asig = "b0"
    /\ heap = [b \in BufIds |-> <<>>]
    /\ sr = 1
    /\ algorithm = "yaapt"
    /\ edits = <<>>
    /\ cache_asig = "none"
    /\ pitch = <<>>
    /\ pitch_sr = 0
    /\ events = <<>>
    /\ applied = <<>>
    /\ last = [op |-> "none", args |-> NoArgs, raised |-> "", calls |-> <<>>]
    /\ max_vibrato_extent \in SegExtents
    /\ max_vibrato_inaccuracy \in SegInaccuracies
    /\ min_event_length \in SegMinLengths
    /\ seg_pc = "loop"
    /\ seg_pitch \in Contours
    /\ seg_sr \in SegRates
    /\ seg_i = 0
    /\ seg_start = 0
    /\ seg_end = 0
    /\ seg_ranges = <<>>
    /\ seg_events = <<>>
    /\ RecIdle

\* The body of "for i, current_pitch in enumerate(pitch)" for the next i.
SegStep ==
    /\ seg_pc = "loop"
    /\ seg_i < Len(seg_pitch)
    /\ LET st == SegIter([start |-> seg_start, end |-> seg_end, ranges |-> seg_ranges],
                         seg_pitch, seg_sr, seg_i, max_vibrato_extent,
                         max_vibrato_inaccuracy, min_event_length)
       IN  /\ seg_start' = st.start
           /\ seg_end' = st.end
           /\ seg_ranges' = st.ranges
    /\ seg_i' = seg_i + 1
    /\ UNCHANGED <<seg_pc, seg_pitch, seg_sr, seg_events, esigVars, cfgVars, recVars>>

\* The loop is over: the events are built from the ranges and returned.
SegReturn ==
    /\ seg_pc = "loop"
    /\ seg_i >= Len(seg_pitch)
    /\ seg_pc' = "done"
    /\ seg_events' = seg_ranges
    /\ UNCHANGED <<seg_pitch, seg_sr, seg_i, seg_start, seg_end, seg_ranges, esigVars,
                   cfgVars, recVars>>

SegNext == SegStep \/ SegReturn

SegSpec == SegInit /\ [][SegNext]_vars

-----------------------------------------------------------------------------
(* Properties of the segmenter. *)

\* The list ev is sorted by start and no two of its events overlap.
Ordered(ev) ==
    \A k \in 1..(Len(ev) - 1) :
        /\ ev[k].start < ev[k + 1].start
        /\ ev[k].end <= ev[k + 1].start

\* Every event of ev is longer than mel tenths of a second at psr samples a second.
LongEnough(ev, psr, mel) ==
    \A k \in 1..Len(ev) : (ev[k].end - ev[k].start) * 10 > mel * psr

\* C10: for every contour and every configuration with min_event_length >= 0,
\* the events the segmenter returns are sorted by start, pairwise
\* non-overlapping (each end <= the next start), and each satisfies
\* end - start > min_event_length * pitch_sr; the run that computes them step
\* by step returns what _guess_events returns.
C10_EventsOrderedAndLong ==
    seg_pc = "done" =>
        /\ seg_events = guess_events(seg_pitch, seg_sr, max_vibrato_extent,
                                     max_vibrato_inaccuracy, min_event_length)
        /\ Ordered(seg_events)
        /\ LongEnough(seg_events, seg_sr, min_event_length)

\* C10's case: a contour on which two events are returned although a
\* minimum length is in force.
C10_Witness ==
    /\ seg_pc = "done"
    /\ Len(seg_events) >= 2
    /\ min_event_length > 0

\* The samples of the event e of the contour p.
EventPitches(p, e) == Slice(p, e.start, e.end)

\* C11: for a contour of zeros only, whatever its length, its rate, the
\* thresholds and min_event_length >= 0, the segmenter returns no event.
C11_AllZeroContourNoEvents ==
    (seg_pc = "done" /\ \A k \in 1..Len(seg_pitch) : seg_pitch[k] = 0)
    => seg_events = <<>>

\* C12: the contour [220,220,220,440,440,440] at pitch_sr = 3 with
\* max_vibrato_extent = 10 and min_event_length = 0.5 gives exactly the two
\* events [0,3) and [3,6).
C12_ExampleTwoEvents ==
    (/\ seg_pc = "done"
     /\ seg_pitch = ExampleContour
     /\ seg_sr = 3
     /\ max_vibrato_extent = 10
     /\ min_event_length = 5)
    => seg_events = <<[start |-> 0, end |-> 3], [start |-> 3, end |-> 6]>>

\* C19: for every contour and every configuration with min_event_length >= 0,
\* no returned event [start, end) holds an index i with pitch[i] = 0.
C19_NoUnvoicedSampleInEvent ==
    seg_pc = "done" =>
        \A k \in 1..Len(seg_events) :
            \A i \in seg_events[k].start..(seg_events[k].end - 1) : seg_pitch[i + 1] # 0

\* The pitch f is within ext cents of the mean of the pitches q: |f - mean|
\* is at most the step of one semitone above the mean times ext/100.
WithinExtent(f, q, ext) ==
    ~FracGT(Abs(f * Len(q) - SumSeq(q)), SumSeq(q), SemitoneNum * ext, SemitoneDen * 100)

\* C20: in every returned event [s, e) of voiced samples, every raw pitch[i]
\* with s <= i < e deviates from the mean of pitch[s:e] by at most
\* max_freq_deviation, the step of one semitone above that mean times
\* max_vibrato_extent/100.
C20_EventsHaveStableRawPitch ==
    seg_pc = "done" =>
        \A k \in 1..Len(seg_events) :
            LET q == EventPitches(seg_pitch, seg_events[k])
            IN  (\A j \in 1..Len(q) : q[j] # 0) =>
                    \A j \in 1..Len(q) : WithinExtent(q[j], q, max_vibrato_extent)

\* C20's case: an event of three voiced samples that are not all equal, cut
\* off where the next sample would have left the extent.
C20_Witness ==
    /\ seg_pc = "done"
    /\ \E k \in 1..Len(seg_events) :
          LET e == seg_events[k]
              q == EventPitches(seg_pitch, e)
          IN  /\ Len(q) >= 2
              /\ \A j \in 1..Len(q) : q[j] # 0
              /\ \E j \in 1..Len(q) : q[j] # q[1]
              /\ e.end < Len(seg_pitch)
              /\ seg_pitch[e.end + 1] # 0
              /\ ~WithinExtent(seg_pitch[e.end + 1], Append(q, seg_pitch[e.end + 1]),
                               max_vibrato_extent)

\* C21: for every non-empty contour, every returned event satisfies
\* 0 <= start < end <= len(pitch) - 1: the final sample of the contour
\* belongs to no event, even when a stable voiced run reaches it.
C21_FinalSampleInNoEvent ==
    (seg_pc = "done" /\ Len(seg_pitch) >= 1) =>
        \A k \in 1..Len(seg_events) :
            /\ 0 <= seg_events[k].start
            /\ seg_events[k].start < seg_events[k].end
            /\ seg_events[k].end <= Len(seg_pitch) - 1

\* C21's case: a run of equal voiced samples reaches the end of the contour
\* and its event stops one sample short of it.
C21_Witness ==
    /\ seg_pc = "done"
    /\ Len(seg_pitch) >= 3
    /\ Len(seg_events) >= 1
    /\ LET e == seg_events[Len(seg_events)]
       IN  /\ e.end = Len(seg_pitch) - 1
           /\ e.end - e.start >= 2
           /\ \A i \in e.start..e.end : seg_pitch[i + 1] = seg_pitch[Len(seg_pitch)]
           /\ seg_pitch[Len(seg_pitch)] # 0

-----------------------------------------------------------------------------
(* Arecorder (src/pya/Arecorder.py).  A recorder value r is the record of  *)
(* the fields channels, stream, recording (_recording), record_buffer,     *)
(* recordings and block_cnt.  The stream is opened with one input channel: *)
(* a block in_data is the sequence of the bs samples of one buffer.  An    *)
(* array of two dimensions is the sequence of its rows, an array of one    *)
(* dimension the sequence of its samples.                                  *)

\* np.reshape(sigar, (len(sigar) // self.channels, self.channels)) raises:
\* the samples do not fill rows of n.
ReshapeRaises(in_data, n) == (Len(in_data) \div n) * n # Len(in_data)

\* data_float = np.reshape(np.frombuffer(in_data), (len(sigar) //
\* self.channels, self.channels)): rows of n samples, n = self.channels.
data_float(in_data, n) ==
    [k \in 1..(Len(in_data) \div n) |-> SubSeq(in_data, (k - 1) * n + 1, k * n)]

RECURSIVE vstack(_)
\* np.vstack(arrays): the rows of the arrays, one array after the other.
vstack(arrays) == IF arrays = <<>> THEN <<>> ELSE Head(arrays) \o vstack(Tail(arrays))

\* np.squeeze(a) for an array a of rows: the dimensions of length 1 are
\* dropped (a single sample is left as a scalar).
squeeze(a) ==
    IF Len(a) = 1 /\ Len(a[1]) = 1 THEN a[1][1]
    ELSE IF Len(a) = 1 THEN a[1]
    ELSE IF Len(a[1]) = 1 THEN [k \in 1..Len(a) |-> a[k][1]]
    ELSE a

\* Arecorder.boot().
boot(r) ==
    [r EXCEPT !.stream = "open", !.block_cnt = 0, !.record_buffer = <<>>,
              !.recording = FALSE]

\* Arecorder._recorder_callback(in_data, ...); when np.reshape raises, the
\* callback ends with the block counted and not buffered.
recorder_callback(r, in_data) ==
    IF r.recording /\ ~ReshapeRaises(in_data, r.channels)
    THEN [r EXCEPT !.block_cnt = @ + 1,
                   !.record_buffer = Append(@, data_float(in_data, r.channels))]
    ELSE [r EXCEPT !.block_cnt = @ + 1]

\* Arecorder.record().
record(r) == [r EXCEPT !.recording = TRUE]

\* Arecorder.pause().
pause(r) == [r EXCEPT !.recording = FALSE]

\* Arecorder.stop().
stop(r) ==
    IF Len(r.record_buffer) > 0
    THEN [r EXCEPT !.recording = FALSE,
                   !.recordings = Append(@, squeeze(vstack(r.record_buffer))),
                   !.record_buffer = <<>>]
    ELSE [r EXCEPT !.recording = FALSE]

\* The channel counts of the Aserver and the block sizes of the stream.
Channels == {1, 2}

BlockSizes == {2, 3}

\* The blocks a stream of n frames a block delivers.
Blocks(n) == {[k \in 1..n |-> k], [k \in 1..n |-> n + k]}

\* The fields of the recorder as a call finds them, and as it leaves them.
RecOf ==
    [channels |-> channels, stream |-> stream, recording |-> recording, record_buffer |-> record_buffer,
     recordings |-> recordings, block_cnt |-> block_cnt]

RecCommit(r) ==
    /\ stream' = r.stream
    /\ recording' = r.recording
    /\ record_buffer' = r.record_buffer
    /\ recordings' = r.recordings
    /\ block_cnt' = r.block_cnt

\* The entry of the history for the call or delivery op.
Logged(op, in_data) == Append(rec_log, [op |-> op, data |-> in_data])

\* The state after Arecorder(...): no Esig and no segmenter run is in use.
RecInit ==
    /\ phase = "new"
    /\ esig_asig = "b0"
    /\ heap = [b \in BufIds |-> <<>>]
    /\ sr = 1
    /\ algorithm = "yaapt"
    /\ edits = <<>>
    /\ cache_asig = "none"
    /\ pitch = <<>>
    /\ pitch_sr = 0
    /\ events = <<>>
    /\ applied = <<>>
    /\ last = [op |-> "none", args |-> NoArgs, raised |-> "", calls |-> <<>>]
    /\ max_vibrato_extent = 40
    /\ max_vibrato_inaccuracy = 5
    /\ min_event_length = 1
    /\ SegIdle
    /\ channels \in Channels
    /\ bs \in BlockSizes
    /\ RecNew

(* The calls and the deliveries one after the other: every callback runs   *)
(* to its end between two calls of the caller.                             *)

Boot ==
    /\ Len(rec_log) < MaxEvents
    /\ RecCommit(boot(RecOf))
    /\ rec_log' = Logged("boot", <<>>)
    /\ UNCHANGED <<recCfg, cb_pc, cb_data, boot_pc, stop_pc, stop_sig, esigVars, cfgVars,
                   segVars>>

Record ==
    /\ Len(rec_log) < MaxEvents
    /\ RecCommit(record(RecOf))
    /\ rec_log' = Logged("record", <<>>)
    /\ UNCHANGED <<recCfg, cb_pc, cb_data, boot_pc, stop_pc, stop_sig, esigVars, cfgVars,
                   segVars>>

Pause ==
    /\ Len(rec_log) < MaxEvents
    /\ RecCommit(pause(RecOf))
    /\ rec_log' = Logged("pause", <<>>)
    /\ UNCHANGED <<recCfg, cb_pc, cb_data, boot_pc, stop_pc, stop_sig, esigVars, cfgVars,
                   segVars>>

Stop ==
    /\ Len(rec_log) < MaxEvents
    /\ RecCommit(stop(RecOf))
    /\ rec_log' = Logged("stop", <<>>)
    /\ UNCHANGED <<recCfg, cb_pc, cb_data, boot_pc, stop_pc, stop_sig, esigVars, cfgVars,
                   segVars>>

\* The stream, once started, delivers the block in_data.
Callback(in_data) ==
    /\ stream = "open"
    /\ Len(rec_log) < MaxEvents
    /\ RecCommit(recorder_callback(RecOf, in_data))
    /\ rec_log' = Logged("block", in_data)
    /\ UNCHANGED <<recCfg, cb_pc, cb_data, boot_pc, stop_pc, stop_sig, esigVars, cfgVars,
                   segVars>>

RecNext ==
    \/ Boot
    \/ Record
    \/ Pause
    \/ Stop
    \/ \E in_data \in Blocks(bs) : Callback(in_data)

RecSpec == RecInit /\ [][RecNext]_vars

RECURSIVE Captured(_)
\* What the history log says of the recording in progress: whether recording
\* is active, and the blocks delivered while it was active since the last
\* stop() or boot(), in the order they were delivered.
Captured(log) ==
    IF log = <<>> THEN [active |-> FALSE, blocks |-> <<>>]
    ELSE LET before == Captured(SubSeq(log, 1, Len(log) - 1))
             e      == log[Len(log)]
         IN  CASE e.op = "boot"   -> [active |-> FALSE, blocks |-> <<>>]
               [] e.op = "stop"   -> [active |-> FALSE, blocks |-> <<>>]
               [] e.op = "record" -> [before EXCEPT !.active = TRUE]
               [] e.op = "pause"  -> [before EXCEPT !.active = FALSE]
               [] e.op = "block"  ->
                     IF before.active
                     THEN [before EXCEPT !.blocks = Append(@, e.data)]
                     ELSE before

RECURSIVE Joined(_)
\* The samples of the blocks (or rows) q, one after the other.
Joined(q) == IF q = <<>> THEN <<>> ELSE Head(q) \o Joined(Tail(q))

\* The last entry of the history is a call of op.
JustReturned(op) == rec_log # <<>> /\ rec_log[Len(rec_log)].op = op

\* The array np.squeeze(np.vstack(...)) makes of the samples q buffered in
\* rows of n: the samples when they fill one row or n is 1, the rows otherwise.
Shaped(q, n) ==
    IF n = 1 \/ Len(q) = n THEN q
    ELSE [k \in 1..(Len(q) \div n) |-> SubSeq(q, (k - 1) * n + 1, k * n)]

\* C23: with the callbacks serialized against the calls, over any sequence of
\* boot, record, pause, stop and deliveries, record_buffer holds the blocks
\* delivered while recording was active since the last stop() or boot(), in
\* the order delivered (a block delivered before record() or while paused is
\* dropped, pause() keeps what is buffered); stop() appends one recording
\* made of exactly these blocks and empties record_buffer, and leaves
\* recordings as they are when no block is buffered.
C23_StopStoresBlocksOfRecording ==
    /\ []([k \in 1..Len(record_buffer) |-> Joined(record_buffer[k])]
             = Captured(rec_log).blocks)
    /\ [][(Len(rec_log') = Len(rec_log) + 1 /\ rec_log'[Len(rec_log')].op = "stop")
          => LET blocks == Captured(rec_log).blocks
             IN  /\ record_buffer' = <<>>
                 /\ recordings' = IF blocks = <<>> THEN recordings
                                  ELSE Append(recordings,
                                              Shaped(Joined(blocks), channels))]_vars

-----------------------------------------------------------------------------
(* Arecorder with the callbacks on the audio threads: boot(), stop() and   *)
(* _recorder_callback run statement by statement, interleaved.  boot(),    *)
(* record(), pause() and stop() are calls of the caller's thread, one      *)
(* after the other.  Every stream boot() has started keeps delivering, on  *)
(* a thread of its own: cb_pc and cb_data have one entry for each.         *)

\* boot() is entered: self.stream = self.backend.open(...).  The stream
\* delivers nothing before start_stream().
BootOpen ==
    /\ boot_pc = "idle"
    /\ stop_pc = "idle"
    /\ Len(rec_log) < MaxEvents
    /\ stream' = "open"
    /\ boot_pc' = "count"
    /\ UNCHANGED <<recCfg, recording, record_buffer, recordings, block_cnt, rec_log, cb_pc,
                   cb_data, stop_pc, stop_sig, esigVars, cfgVars, segVars>>

\* self.block_cnt = 0
BootCount ==
    /\ boot_pc = "count"
    /\ block_cnt' = 0
    /\ boot_pc' = "buffer"
    /\ UNCHANGED <<recCfg, stream, recording, record_buffer, recordings, rec_log, cb_pc,
                   cb_data, stop_pc, stop_sig, esigVars, cfgVars, segVars>>

\* self.record_buffer = []
BootBuffer ==
    /\ boot_pc = "buffer"
    /\ record_buffer' = <<>>
    /\ boot_pc' = "flag"
    /\ UNCHANGED <<recCfg, stream, recording, recordings, block_cnt, rec_log, cb_pc, cb_data,
                   stop_pc, stop_sig, esigVars, cfgVars, segVars>>

\* self._recording = False
BootFlag ==
    /\ boot_pc = "flag"
    /\ recording' = FALSE
    /\ boot_pc' = "start"
    /\ UNCHANGED <<recCfg, stream, record_buffer, recordings, block_cnt, rec_log, cb_pc,
                   cb_data, stop_pc, stop_sig, esigVars, cfgVars, segVars>>

\* self.stream.start_stream(): one more stream delivers; boot() returns.
BootStart ==
    /\ boot_pc = "start"
    /\ cb_pc' = Append(cb_pc, "idle")
    /\ cb_data' = Append(cb_data, <<>>)
    /\ boot_pc' = "idle"
    /\ rec_log' = Logged("boot", <<>>)
    /\ UNCHANGED <<recCfg, stream, recording, record_buffer, recordings, block_cnt, stop_pc,
                   stop_sig, esigVars, cfgVars, segVars>>

ConcRecord ==
    /\ boot_pc = "idle"
    /\ stop_pc = "idle"
    /\ Len(rec_log) < MaxEvents
    /\ recording' = record(RecOf).recording
    /\ rec_log' = Logged("record", <<>>)
    /\ UNCHANGED <<recCfg, stream, record_buffer, recordings, block_cnt, cb_pc, cb_data,
                   boot_pc, stop_pc, stop_sig, esigVars, cfgVars, segVars>>

ConcPause ==
    /\ boot_pc = "idle"
    /\ stop_pc = "idle"
    /\ Len(rec_log) < MaxEvents
    /\ recording' = pause(RecOf).recording
    /\ rec_log' = Logged("pause", <<>>)
    /\ UNCHANGED <<recCfg, stream, record_buffer, recordings, block_cnt, cb_pc, cb_data,
                   boot_pc, stop_pc, stop_sig, esigVars, cfgVars, segVars>>

\* _recorder_callback is entered on the thread of the started stream s with
\* the block in_data: self.block_cnt += 1.
CbCount(s, in_data) ==
    /\ cb_pc[s] = "idle"
    /\ Len(rec_log) < MaxEvents
    /\ block_cnt' = block_cnt + 1
    /\ cb_data' = [cb_data EXCEPT ![s] = in_data]
    /\ cb_pc' = [cb_pc EXCEPT ![s] = "test"]
    /\ rec_log' = Logged("block", in_data)
    /\ UNCHANGED <<recCfg, stream, recording, record_buffer, recordings, boot_pc, stop_pc,
                   stop_sig, esigVars, cfgVars, segVars>>

\* if self._recording: the block is converted; else, and when np.reshape
\* raises, the callback is over.
CbTest(s) ==
    /\ cb_pc[s] = "test"
    /\ IF recording /\ ~ReshapeRaises(cb_data[s], channels)
       THEN /\ cb_pc' = [cb_pc EXCEPT ![s] = "append"]
            /\ cb_data' = [cb_data EXCEPT ![s] = data_float(cb_data[s], channels)]
       ELSE /\ cb_pc' = [cb_pc EXCEPT ![s] = "idle"]
            /\ cb_data' = [cb_data EXCEPT ![s] = <<>>]
    /\ UNCHANGED <<recCfg, stream, recording, record_buffer, recordings, block_cnt, rec_log,
                   boot_pc, stop_pc, stop_sig, esigVars, cfgVars, segVars>>

\* self.record_buffer.append(data_float), and the callback returns.
CbAppend(s) ==
    /\ cb_pc[s] = "append"
    /\ record_buffer' = Append(record_buffer, cb_data[s])
    /\ cb_pc' = [cb_pc EXCEPT ![s] = "idle"]
    /\ cb_data' = [cb_data EXCEPT ![s] = <<>>]
    /\ UNCHANGED <<recCfg, stream, recording, recordings, block_cnt, rec_log, boot_pc,
                   stop_pc, stop_sig, esigVars, cfgVars, segVars>>

\* stop() is entered: self._recording = False.
StopFlag ==
    /\ boot_pc = "idle"
    /\ stop_pc = "idle"
    /\ Len(rec_log) < MaxEvents
    /\ recording' = FALSE
    /\ stop_pc' = "test"
    /\ UNCHANGED <<recCfg, stream, record_buffer, recordings, block_cnt, rec_log, cb_pc, cb_data,
                   boot_pc, stop_sig, esigVars, cfgVars, segVars>>

\* if len(self.record_buffer) > 0: ... else: stop() returns.
StopTest ==
    /\ stop_pc = "test"
    /\ IF Len(record_buffer) > 0
       THEN stop_pc' = "stack" /\ rec_log' = rec_log
       ELSE stop_pc' = "idle" /\ rec_log' = Logged("stop", <<>>)
    /\ UNCHANGED <<recCfg, stream, recording, record_buffer, recordings, block_cnt, cb_pc, cb_data,
                   boot_pc, stop_sig, esigVars, cfgVars, segVars>>

\* sig = np.squeeze(np.vstack(self.record_buffer))
StopStack ==
    /\ stop_pc = "stack"
    /\ stop_sig' = squeeze(vstack(record_buffer))
    /\ stop_pc' = "append"
    /\ UNCHANGED <<recCfg, stream, recording, record_buffer, recordings, block_cnt, rec_log, cb_pc,
                   cb_data, boot_pc, esigVars, cfgVars, segVars>>

\* self.recordings.append(Asig(sig, self.sr, label=""))
StopAppend ==
    /\ stop_pc = "append"
    /\ recordings' = Append(recordings, stop_sig)
    /\ stop_pc' = "clear"
    /\ UNCHANGED <<recCfg, stream, recording, record_buffer, block_cnt, rec_log, cb_pc, cb_data,
                   boot_pc, stop_sig, esigVars, cfgVars, segVars>>

\* self.record_buffer = [], and stop() returns.
StopClear ==
    /\ stop_pc = "clear"
    /\ record_buffer' = <<>>
    /\ stop_sig' = <<>>
    /\ stop_pc' = "idle"
    /\ rec_log' = Logged("stop", <<>>)
    /\ UNCHANGED <<recCfg, stream, recording, recordings, block_cnt, cb_pc, cb_data, boot_pc,
                   esigVars, cfgVars, segVars>>

ConcNext ==
    \/ BootOpen
    \/ BootCount
    \/ BootBuffer
    \/ BootFlag
    \/ BootStart
    \/ ConcRecord
    \/ ConcPause
    \/ \E s \in 1..Len(cb_pc), in_data \in Blocks(bs) : CbCount(s, in_data)
    \/ \E s \in 1..Len(cb_pc) : CbTest(s)
    \/ \E s \in 1..Len(cb_pc) : CbAppend(s)
    \/ StopFlag
    \/ StopTest
    \/ StopStack
    \/ StopAppend
    \/ StopClear

ConcSpec == RecInit /\ [][ConcNext]_vars

RECURSIVE StoppedAndNotRestarted(_)
\* By the history log, stop() has returned and record() has not been called
\* since.
StoppedAndNotRestarted(log) ==
    IF log = <<>> THEN FALSE
    ELSE LET e == log[Len(log)]
         IN  CASE e.op = "stop"   -> TRUE
               [] e.op = "record" -> FALSE
               [] OTHER           -> StoppedAndNotRestarted(SubSeq(log, 1, Len(log) - 1))

\* C24: with _recorder_callback interleaved statement by statement with
\* stop(), record_buffer is empty once stop() has returned and stays empty
\* until record() is called again.
C24_BufferEmptyAfterStop ==
    (stop_pc = "idle" /\ StoppedAndNotRestarted(rec_log)) => record_buffer = <<>>

=============================================================================
